---- MODULE Spec2Model ----
(***************************************************************************)
(* Model of src/src/crypto/tron.ts: the unit converter (parseTrx,          *)
(* sunToTrx), the balance and history queries, and the transfer functions  *)
(* (sendTrx, sendTRC20Token, drainTrx, drainTRC20Token) as asynchronous    *)
(* invocations that advance one awaited remote response at a time.         *)
(*                                                                         *)
(* JavaScript numbers and BigNumber values are modelled exactly, as signed *)
(* dyadic rationals [neg, m, k] = (-1)^neg * m / 2^k whose magnitude m is  *)
(* a little-endian bit sequence, so that IEEE-754 double rounding and the  *)
(* 32-bit wrap of `| 0` are computed, not assumed.                         *)
(***************************************************************************)
EXTENDS Integers, Sequences, FiniteSets

\* ------------------------------------------------------------------------
\* Bit-sequence arithmetic (little-endian, no high-order zeros)
\* ------------------------------------------------------------------------

\* arithmetic proceeds 11 bits at a time: 2^11 * 10^6 < 2^31
ChunkLen(b) ==
    IF Len(b) >= 11 THEN 11 ELSE Len(b)

\* the n <= 11 low bits of v
BitsOf(v, n) ==
    SubSeq(<<v % 2, (v \div 2) % 2, (v \div 4) % 2, (v \div 8) % 2,
             (v \div 16) % 2, (v \div 32) % 2, (v \div 64) % 2, (v \div 128) % 2,
             (v \div 256) % 2, (v \div 512) % 2, (v \div 1024) % 2>>,
           1, n)

\* the value of bits 1..11 of b
ChunkVal(b) ==
    LET bit(i) == IF i <= Len(b) THEN b[i] ELSE 0
    IN  bit(1) + 2 * bit(2) + 4 * bit(3) + 8 * bit(4) + 16 * bit(5) + 32 * bit(6)
            + 64 * bit(7) + 128 * bit(8) + 256 * bit(9) + 512 * bit(10)
            + 1024 * bit(11)

Trim(b) ==
    LET ones == {i \in 1..Len(b) : b[i] = 1}
    IN  IF ones = {} THEN <<>>
        ELSE SubSeq(b, 1, CHOOSE i \in ones : \A j \in ones : j <= i)

\* n < 2^31 in binary
NatToBits(n) ==
    Trim(BitsOf(n % 2048, 11) \o BitsOf((n \div 2048) % 2048, 11)
            \o BitsOf(n \div 4194304, 11))

\* the value of b < 2^31
BitsToNat(b) ==
    ChunkVal(b) + 2048 * ChunkVal(SubSeq(b, 12, Len(b)))
        + 4194304 * ChunkVal(SubSeq(b, 23, Len(b)))

ZeroBits ==
    <<0, 0, 0, 0, 0, 0, 0, 0, 0, 0, 0, 0, 0, 0, 0, 0,
      0, 0, 0, 0, 0, 0, 0, 0, 0, 0, 0, 0, 0, 0, 0, 0,
      0, 0, 0, 0, 0, 0, 0, 0, 0, 0, 0, 0, 0, 0, 0, 0,
      0, 0, 0, 0, 0, 0, 0, 0, 0, 0, 0, 0, 0, 0, 0, 0,
      0, 0, 0, 0, 0, 0, 0, 0, 0, 0, 0, 0, 0, 0, 0, 0,
      0, 0, 0, 0, 0, 0, 0, 0, 0, 0, 0, 0, 0, 0, 0, 0>>

Zeros(n) ==
    SubSeq(ZeroBits, 1, n)

\* b + 1
Inc(b) ==
    LET zeros == {i \in 1..Len(b) : b[i] = 0}
    IN  IF zeros = {} THEN Zeros(Len(b)) \o <<1>>
        ELSE LET z == CHOOSE i \in zeros : \A j \in zeros : i <= j
             IN  Zeros(z - 1) \o <<1>> \o SubSeq(b, z + 1, Len(b))

RECURSIVE MulFrom(_, _, _, _)
MulFrom(b, c, carry, low) ==
    IF Len(b) = 0 THEN low \o NatToBits(carry)
    ELSE LET n == ChunkLen(b)
             d == ChunkVal(SubSeq(b, 1, n)) * c + carry
         IN  MulFrom(SubSeq(b, n + 1, Len(b)), c, d \div 2^n, low \o BitsOf(d % 2^n, n))

\* b * c + carry, for a multiplier c <= 10^6
MulSmall(b, c, carry) ==
    MulFrom(b, c, carry, <<>>)

RECURSIVE DivFrom(_, _, _, _)
DivFrom(b, c, q, r) ==
    IF Len(b) = 0 THEN [q |-> q, r |-> r]
    ELSE LET n   == IF Len(b) % 11 = 0 THEN 11 ELSE Len(b) % 11
             cur == r * 2^n + ChunkVal(SubSeq(b, Len(b) - n + 1, Len(b)))
         IN  DivFrom(SubSeq(b, 1, Len(b) - n), c, BitsOf(cur \div c, n) \o q, cur % c)

\* quotient (untrimmed) and remainder of b by a divisor c <= 10^6
DivSmall(b, c) ==
    DivFrom(b, c, <<>>, 0)

\* -1, 0, 1 as a < b, a = b, a > b (both trimmed)
CmpBits(a, b) ==
    IF Len(a) # Len(b) THEN (IF Len(a) < Len(b) THEN -1 ELSE 1)
    ELSE LET diff == {i \in 1..Len(a) : a[i] # b[i]}
         IN  IF diff = {} THEN 0
             ELSE LET top == CHOOSE i \in diff : \A j \in diff : j <= i
                  IN  IF a[top] < b[top] THEN -1 ELSE 1

RECURSIVE Pow10(_)
Pow10(d) ==
    IF d = 0 THEN 1 ELSE 10 * Pow10(d - 1)

\* ------------------------------------------------------------------------
\* Numbers: (-1)^neg * m / 2^k
\* ------------------------------------------------------------------------

NormNum(neg, m, k) ==
    LET ones == {i \in 1..Len(m) : m[i] = 1}
    IN  IF ones = {} THEN [neg |-> FALSE, m |-> <<>>, k |-> 0]
        ELSE LET low == (CHOOSE i \in ones : \A j \in ones : i <= j) - 1
                 cut == IF low < k THEN low ELSE k
             IN  [neg |-> neg, m |-> SubSeq(m, cut + 1, Len(m)), k |-> k - cut]

NumOfInt(i) ==
    [neg |-> i < 0, m |-> NatToBits(IF i < 0 THEN -i ELSE i), k |-> 0]

NumOfBits(b) ==
    [neg |-> FALSE, m |-> b, k |-> 0]

Zero ==
    NumOfInt(0)

\* magnitudes of a and b brought to the same exponent
Aligned(a, b) ==
    LET K == IF a.k > b.k THEN a.k ELSE b.k
    IN  <<Zeros(K - a.k) \o a.m, Zeros(K - b.k) \o b.m>>

NumCmp(a, b) ==
    LET al == Aligned(a, b)
        ma == Trim(al[1])
        mb == Trim(al[2])
    IN  IF a.neg # b.neg THEN (IF a.neg THEN -1 ELSE 1)
        ELSE IF a.neg THEN CmpBits(mb, ma)
        ELSE CmpBits(ma, mb)

NumGte(a, b) == NumCmp(a, b) >= 0
NumLte(a, b) == NumCmp(a, b) <= 0
NumLt(a, b) == NumCmp(a, b) < 0

\* ------------------------------------------------------------------------
\* IEEE-754 double rounding (round to nearest, ties to even; 53-bit mantissa)
\* ------------------------------------------------------------------------

MantissaBits == 53

\* n without its s low bits, rounded to nearest, ties to even; sticky says
\* that the part of the value below n's unit is not zero
RoundBits(n, s, sticky) ==
    LET q    == SubSeq(n, s + 1, Len(n))
        half == s >= 1 /\ n[s] = 1
        rest == sticky \/ \E i \in 1..(s - 1) : n[i] = 1
        up   == half /\ (rest \/ (Len(q) > 0 /\ q[1] = 1))
    IN  IF up THEN Inc(q) ELSE q

\* the double nearest to n / 2^k
RoundToDouble(neg, n, k, sticky) ==
    IF Len(n) <= MantissaBits THEN NormNum(neg, n, k)
    ELSE LET s == Len(n) - MantissaBits
             m == RoundBits(n, s, sticky)
         IN  IF s <= k THEN NormNum(neg, m, k - s)
             ELSE NormNum(neg, Zeros(s - k) \o m, 0)

\* the double nearest to n / d, for a small divisor d
NearestDouble(n, d) ==
    IF Len(n) = 0 THEN Zero
    ELSE LET want == MantissaBits + 2 + Len(NatToBits(d))
             k    == IF want > Len(n) THEN want - Len(n) ELSE 0
             qr   == DivSmall(Zeros(k) \o n, d)
         IN  RoundToDouble(FALSE, Trim(qr.q), k, qr.r # 0)

\* the double product x * 10^d
MulPow10(x, d) ==
    RoundToDouble(x.neg, MulSmall(x.m, Pow10(d), 0), x.k, FALSE)

\* the integer part of x, toward zero
Trunc(x) ==
    [neg |-> x.neg /\ Len(x.m) > x.k, m |-> SubSeq(x.m, x.k + 1, Len(x.m)), k |-> 0]

Int32Bits == 32

Low32(b) ==
    IF Len(b) >= Int32Bits THEN SubSeq(b, 1, Int32Bits)
    ELSE b \o Zeros(Int32Bits - Len(b))

\* 2^32 - u for a 32-bit u # 0, by 16-bit halves
TwosComp(u) ==
    LET lo  == BitsToNat(SubSeq(u, 1, 16))
        hi  == BitsToNat(SubSeq(u, 17, 32))
        rlo == (65536 - lo) % 65536
        rhi == (65536 - hi - (IF lo = 0 THEN 0 ELSE 1)) % 65536
    IN  Trim(SubSeq(NatToBits(rlo) \o ZeroBits, 1, 16) \o NatToBits(rhi))

\* ECMAScript ToInt32 of an integer x
ToInt32(x) ==
    LET u  == Low32(x.m)
        v  == IF x.neg /\ Len(Trim(u)) > 0 THEN Low32(TwosComp(u)) ELSE u
    IN  IF v[Int32Bits] = 1 THEN [neg |-> TRUE, m |-> TwosComp(v), k |-> 0]
        ELSE [neg |-> FALSE, m |-> Trim(v), k |-> 0]

\* ------------------------------------------------------------------------
\* Unit converter
\* ------------------------------------------------------------------------

TrxScale == 6

parseTrx(trx) ==
    ToInt32(Trunc(MulPow10(trx, TrxScale)))

sunToTrx(sun) ==
    NearestDouble(sun.m, Pow10(TrxScale))

\* ------------------------------------------------------------------------
\* Inputs and remote responses
\* ------------------------------------------------------------------------

MaxTokens == 2

\* two concurrent invocations; they share nothing but the remote service
Calls == {1, 2}

Keys == {"keyS"}
Backers == {"", "keyB"}
Destinations == {"TDest"}
Contracts == {"TA"}
DecimalsInputs == {2, 6}

\* wallet.getAddress() of the wallet imported from a private key
AddressOf(privateKey) ==
    CASE privateKey = "keyS" -> "TSender"
      [] privateKey = "keyB" -> "TBacker"
      [] OTHER -> "TUnknown"

\* the double written as the decimal literal whole.micro (six fraction digits)
Decimal(whole, micro) ==
    NearestDouble(MulSmall(NatToBits(whole), Pow10(6), micro), Pow10(6))

TrxInputs ==
    {Decimal(1, 0), Decimal(4, 999999), Decimal(5, 0), Decimal(3000, 0)}

NativeBalances == {500000, 1000000, 2000000, 5000000}

\* a trc20 entry is a single-key object {contract: "digits"}
TokenEntries ==
    { [contract |-> "TA", value |-> <<5, 0, 0>>],
      [contract |-> "TA", value |-> <<5, 0, 0, 0, 0, 0, 0>>],
      [contract |-> "Ta", value |-> <<7>>] }

TokenLists ==
    UNION {[1..n -> TokenEntries] : n \in 0..MaxTokens}

\* `data` of GET v1/accounts/<address>: no record, or one account record
AccountResponses ==
    {<<>>}
        \cup {<<[balance |-> b, trc20 |-> <<>>]>> : b \in NativeBalances}
        \cup {<<[balance |-> 1000000, trc20 |-> t]>> : t \in TokenLists}

\* responses of the two history endpoints
HistoryResponses ==
    [success : BOOLEAN, error : {"x", "y"}, data : {<<>>, <<"t1">>, <<"t1", "t2">>}]

Block == [hash |-> "h1", timestamp |-> 1, number |-> 1]
Receipt == [result |-> TRUE]

ConfigError == "Please provide TRONGRID_API_KEY"
TransportError == "request failed"
InsufficientBalanceError == "Insufficient balance"

\* ------------------------------------------------------------------------
\* State
\* ------------------------------------------------------------------------

VARIABLES
    apiKey,      \* process.env.TRONGRID_API_KEY is set
    calls,       \* per invocation: its frame and the frame of a nested sendTrx
    broadcasts,  \* transactions the remote accepted, in order
    conv         \* the converter applied to one input

vars == <<apiKey, calls, broadcasts, conv>>

IdleFrame ==
    [op |-> "none", pc |-> "idle", status |-> "idle",
     privateKey |-> "", to |-> "", trx |-> Zero, decimals |-> 0,
     contractAddress |-> "", backer |-> "",
     latestBlock |-> <<>>, amount |-> <<>>, balance |-> <<>>, tx |-> <<>>,
     response |-> <<>>, error |-> "", value |-> <<>>]

IdleConv == [stage |-> "off", sun |-> Zero, trx |-> Zero, out |-> Zero]

Throw(f, e) ==
    [f EXCEPT !.status = "threw", !.error = e, !.pc = "done"]

Return(f, v) ==
    [f EXCEPT !.status = "returned", !.value = <<v>>, !.pc = "done"]

\* getTronGridLink throws without the key; otherwise fetch resolves or rejects
RequestOutcomes ==
    IF apiKey THEN {"ok", "transport"} ELSE {"config"}

ErrorOf(outcome) ==
    IF outcome = "config" THEN ConfigError ELSE TransportError

\* ------------------------------------------------------------------------
\* Balance queries
\* ------------------------------------------------------------------------

RECURSIVE parseInt(_)
parseInt(digits) ==
    IF Len(digits) = 0 THEN 0
    ELSE 10 * parseInt(SubSeq(digits, 1, Len(digits) - 1)) + digits[Len(digits)]

getTrxBalance(data) ==
    IF Len(data) = 0 THEN [sun |-> 0, trx |-> Zero]
    ELSE [sun |-> data[1].balance, trx |-> sunToTrx(NumOfInt(data[1].balance))]

TokenDisplayScale == 6

\* variant: the last matching entry instead of the first
getTRC20Balance_lastMatch(data, contractAddress, decimals) ==
    IF Len(data) = 0 THEN [sun |-> 0, trx |-> Zero]
    ELSE LET trc20 == data[1].trc20
             hits  == {i \in 1..Len(trc20) : trc20[i].contract = contractAddress}
         IN  IF Len(trc20) = 0 \/ hits = {} THEN [sun |-> 0, trx |-> Zero]
             ELSE LET index == CHOOSE i \in hits : \A j \in hits : j <= i
                      sun   == parseInt(trc20[index].value)
                  IN  [sun |-> sun,
                       trx |-> NearestDouble(NatToBits(sun), Pow10(TokenDisplayScale))]

getTRC20Balance(data, contractAddress, decimals) ==
    IF Len(data) = 0 THEN [sun |-> 0, trx |-> Zero]
    ELSE LET trc20 == data[1].trc20
             hits  == {i \in 1..Len(trc20) : trc20[i].contract = contractAddress}
         IN  IF Len(trc20) = 0 \/ hits = {} THEN [sun |-> 0, trx |-> Zero]
             ELSE LET index == CHOOSE i \in hits : \A j \in hits : i <= j
                      sun   == parseInt(trc20[index].value)
                  IN  [sun |-> sun,
                       trx |-> NearestDouble(NatToBits(sun), Pow10(TokenDisplayScale))]

\* what `await getTrxBalance(...)` can resolve to
TrxBalanceResults ==
    {getTrxBalance(data) : data \in AccountResponses}

\* what `await getTRC20Balance(...)` can resolve to
TRC20BalanceResults ==
    [contractAddress \in Contracts, decimals \in DecimalsInputs |->
        {getTRC20Balance(data, contractAddress, decimals) : data \in AccountResponses}]

\* ------------------------------------------------------------------------
\* Transfers
\* ------------------------------------------------------------------------

ReserveScale == 6
BackerAmount == 1

\* variant: `gt` in place of `gte`
InsufficientBalance_strict(amount, balance) ==
    NumCmp(amount, NumOfInt(balance)) > 0

\* variant: the operands of `gte` exchanged
InsufficientBalance_swapped(amount, balance) ==
    NumGte(NumOfInt(balance), amount)

InsufficientBalance(amount, balance) ==
    NumGte(amount, NumOfInt(balance))

\* variant: no reserve is held back
DrainAmount_noReserve(sun) ==
    NumOfInt(sun)

DrainAmount(sun) ==
    NumOfInt(sun - Pow10(ReserveScale))

TokenAmount(trx, decimals) ==
    MulPow10(trx, decimals)

generateTransaction(privateKey, to, amount, latestBlock) ==
    [from |-> AddressOf(privateKey), to |-> to, asset |-> "TRX",
     amount |-> amount, block |-> latestBlock]

transferTRC20Token(privateKey, contractAddress, to, amount, latestBlock) ==
    [from |-> AddressOf(privateKey), to |-> to, asset |-> contractAddress,
     amount |-> amount, block |-> latestBlock]

\* the synchronous prefix of sendTrx, up to its first await
StartSendTrx(privateKey, to, trx) ==
    [IdleFrame EXCEPT !.op = "sendTrx", !.pc = "getLatestBlock", !.status = "running",
                      !.privateKey = privateKey, !.to = to, !.trx = trx,
                      !.amount = <<parseTrx(trx)>>]

\* the frame that is executing: the nested sendTrx while it runs
SubRunning(c) ==
    Len(calls[c].sub) = 1 /\ calls[c].sub[1].status = "running"

Active(c) ==
    IF SubRunning(c) THEN calls[c].sub[1] ELSE calls[c].main

At(c, op, pc) ==
    Active(c).op = op /\ Active(c).pc = pc /\ Active(c).status = "running"

\* variant: the result of the nested sendTrx is not awaited
AfterBacker_swallow(main, sub) ==
    [main EXCEPT !.pc = "broadcast",
                 !.tx = <<transferTRC20Token(main.privateKey, main.contractAddress,
                                             main.to, main.amount[1],
                                             main.latestBlock[1])>>]

\* drainTRC20Token after `await sendTrx(...)`: the error propagates, or the
\* token transaction is constructed and handed to broadcastTransaction
AfterBacker(main, sub) ==
    IF sub.status = "threw" THEN Throw(main, sub.error)
    ELSE [main EXCEPT !.pc = "broadcast",
                      !.tx = <<transferTRC20Token(main.privateKey, main.contractAddress,
                                                  main.to, main.amount[1],
                                                  main.latestBlock[1])>>]

\* the active frame becomes f; a nested frame that finished resumes its caller
Settled(c, f) ==
    IF SubRunning(c)
    THEN [calls EXCEPT ![c] =
            [main |-> IF f.status = "running" THEN @.main ELSE AfterBacker(@.main, f),
             sub  |-> <<f>>]]
    ELSE [calls EXCEPT ![c].main = f]

\* ------------------------------------------------------------------------
\* Invocations: the synchronous prefix of each exported function
\* ------------------------------------------------------------------------

Idle(c) ==
    calls[c].main.pc = "idle"

CallSendTrx(c) ==
    /\ Idle(c)
    /\ \E privateKey \in Keys, to \in Destinations, trx \in TrxInputs :
         calls' = [calls EXCEPT ![c].main = StartSendTrx(privateKey, to, trx)]
    /\ UNCHANGED <<apiKey, broadcasts, conv>>

CallSendTRC20Token(c) ==
    /\ Idle(c)
    /\ \E privateKey \in Keys, to \in Destinations, trx \in TrxInputs,
          contractAddress \in Contracts, decimals \in DecimalsInputs :
         calls' = [calls EXCEPT ![c].main =
                     [IdleFrame EXCEPT !.op = "sendTRC20Token", !.pc = "getLatestBlock",
                                       !.status = "running",
                                       !.privateKey = privateKey, !.to = to, !.trx = trx,
                                       !.contractAddress = contractAddress,
                                       !.decimals = decimals,
                                       !.amount = <<TokenAmount(trx, decimals)>>]]
    /\ UNCHANGED <<apiKey, broadcasts, conv>>

CallDrainTrx(c) ==
    /\ Idle(c)
    /\ \E privateKey \in Keys, to \in Destinations, trx \in TrxInputs :
         calls' = [calls EXCEPT ![c].main =
                     [IdleFrame EXCEPT !.op = "drainTrx", !.pc = "getLatestBlock",
                                       !.status = "running",
                                       !.privateKey = privateKey, !.to = to, !.trx = trx]]
    /\ UNCHANGED <<apiKey, broadcasts, conv>>

CallDrainTRC20Token(c) ==
    /\ Idle(c)
    /\ \E privateKey \in Keys, to \in Destinations, backer \in Backers,
          contractAddress \in Contracts, decimals \in DecimalsInputs :
         calls' = [calls EXCEPT ![c].main =
                     [IdleFrame EXCEPT !.op = "drainTRC20Token", !.pc = "getLatestBlock",
                                       !.status = "running",
                                       !.privateKey = privateKey, !.to = to,
                                       !.contractAddress = contractAddress,
                                       !.decimals = decimals, !.backer = backer]]
    /\ UNCHANGED <<apiKey, broadcasts, conv>>

CallGetTrxBalance(c) ==
    /\ Idle(c)
    /\ calls' = [calls EXCEPT ![c].main =
                   [IdleFrame EXCEPT !.op = "getTrxBalance", !.pc = "getTrxBalance",
                                     !.status = "running"]]
    /\ UNCHANGED <<apiKey, broadcasts, conv>>

CallGetTRC20Balance(c) ==
    /\ Idle(c)
    /\ \E contractAddress \in Contracts, decimals \in DecimalsInputs :
         calls' = [calls EXCEPT ![c].main =
                     [IdleFrame EXCEPT !.op = "getTRC20Balance", !.pc = "getTRC20Balance",
                                       !.status = "running",
                                       !.contractAddress = contractAddress,
                                       !.decimals = decimals]]
    /\ UNCHANGED <<apiKey, broadcasts, conv>>

CallGetTransactions(c) ==
    /\ Idle(c)
    /\ \E op \in {"getTrxTransactions", "getTrc20Transactions"} :
         calls' = [calls EXCEPT ![c].main =
                     [IdleFrame EXCEPT !.op = op, !.pc = "transactions",
                                       !.status = "running"]]
    /\ UNCHANGED <<apiKey, broadcasts, conv>>

\* ------------------------------------------------------------------------
\* Continuations: one awaited response each
\* ------------------------------------------------------------------------

\* `await getLatestBlock({network})` in the four transfer functions
LatestBlockResponse(c) ==
    /\ Active(c).pc = "getLatestBlock" /\ Active(c).status = "running"
    /\ \E o \in RequestOutcomes :
         LET f == Active(c)
             next == IF f.op \in {"sendTrx", "drainTrx"} THEN "getTrxBalance"
                     ELSE "getTRC20Balance"
         IN  calls' = Settled(c, IF o # "ok" THEN Throw(f, ErrorOf(o))
                                 ELSE [f EXCEPT !.latestBlock = <<Block>>, !.pc = next])
    /\ UNCHANGED <<apiKey, broadcasts, conv>>

GetTrxBalanceResponse(c) ==
    /\ At(c, "getTrxBalance", "getTrxBalance")
    /\ \E o \in RequestOutcomes, data \in AccountResponses :
         LET f == Active(c)
         IN  calls' = Settled(c, IF o # "ok" THEN Throw(f, ErrorOf(o))
                                 ELSE Return([f EXCEPT !.response = <<data>>],
                                             getTrxBalance(data)))
    /\ UNCHANGED <<apiKey, broadcasts, conv>>

GetTRC20BalanceResponse(c) ==
    /\ At(c, "getTRC20Balance", "getTRC20Balance")
    /\ \E o \in RequestOutcomes, data \in AccountResponses :
         LET f == Active(c)
         IN  calls' = Settled(c, IF o # "ok" THEN Throw(f, ErrorOf(o))
                                 ELSE Return([f EXCEPT !.response = <<data>>],
                                             getTRC20Balance(data, f.contractAddress,
                                                             f.decimals)))
    /\ UNCHANGED <<apiKey, broadcasts, conv>>

\* sendTrx from `await getTrxBalance` to the call of broadcastTransaction
SendTrxBalance(c) ==
    /\ At(c, "sendTrx", "getTrxBalance")
    /\ \E o \in RequestOutcomes, result \in TrxBalanceResults :
         LET f       == Active(c)
             balance == result.sun
             f1      == [f EXCEPT !.balance = <<balance>>]
         IN  calls' = Settled(c,
                 IF o # "ok" THEN Throw(f, ErrorOf(o))
                 ELSE IF InsufficientBalance(f.amount[1], balance)
                      THEN Throw(f1, InsufficientBalanceError)
                 ELSE [f1 EXCEPT !.pc = "broadcast",
                                 !.tx = <<generateTransaction(f.privateKey, f.to,
                                                              f.amount[1],
                                                              f.latestBlock[1])>>])
    /\ UNCHANGED <<apiKey, broadcasts, conv>>

\* sendTRC20Token from `await getTRC20Balance` to the call of broadcastTransaction
SendTRC20Balance(c) ==
    /\ At(c, "sendTRC20Token", "getTRC20Balance")
    /\ \E o \in RequestOutcomes :
         LET f == Active(c)
         IN  \E result \in TRC20BalanceResults[f.contractAddress, f.decimals] :
         LET balance == result.sun
             f1      == [f EXCEPT !.balance = <<balance>>]
         IN  calls' = Settled(c,
                 IF o # "ok" THEN Throw(f, ErrorOf(o))
                 ELSE IF InsufficientBalance(f.amount[1], balance)
                      THEN Throw(f1, InsufficientBalanceError)
                 ELSE [f1 EXCEPT !.pc = "broadcast",
                                 !.tx = <<transferTRC20Token(f.privateKey,
                                                             f.contractAddress, f.to,
                                                             f.amount[1],
                                                             f.latestBlock[1])>>])
    /\ UNCHANGED <<apiKey, broadcasts, conv>>

\* drainTrx from `await getTrxBalance` to the call of broadcastTransaction
DrainTrxBalance(c) ==
    /\ At(c, "drainTrx", "getTrxBalance")
    /\ \E o \in RequestOutcomes, result \in TrxBalanceResults :
         LET f      == Active(c)
             sun    == result.sun
             amount == DrainAmount(sun)
         IN  calls' = Settled(c,
                 IF o # "ok" THEN Throw(f, ErrorOf(o))
                 ELSE [f EXCEPT !.balance = <<sun>>, !.amount = <<amount>>,
                                !.pc = "broadcast",
                                !.tx = <<generateTransaction(f.privateKey, f.to, amount,
                                                             f.latestBlock[1])>>])
    /\ UNCHANGED <<apiKey, broadcasts, conv>>

\* the frame of drainTRC20Token once its balance is known: the nested sendTrx
\* is started when a backer is given, else the transaction is constructed
DrainTokenProceed(f, sun) ==
    LET f1 == [f EXCEPT !.balance = <<sun>>, !.amount = <<NumOfInt(sun)>>]
    IN  IF f.backer # ""
        THEN [main |-> [f1 EXCEPT !.pc = "sendTrx"],
              sub  |-> <<StartSendTrx(f.backer, AddressOf(f.privateKey),
                                      NumOfInt(BackerAmount))>>]
        ELSE [main |-> AfterBacker(f1, [status |-> "returned"]),
              sub  |-> <<>>]

\* drainTRC20Token from `await getTRC20Balance` to its next await
DrainTRC20Balance(c) ==
    /\ At(c, "drainTRC20Token", "getTRC20Balance")
    /\ \E o \in RequestOutcomes :
         LET f == Active(c)
         IN  \E result \in TRC20BalanceResults[f.contractAddress, f.decimals] :
         LET sun == result.sun
         IN  calls' = [calls EXCEPT ![c] =
                 IF o # "ok" THEN [main |-> Throw(f, ErrorOf(o)), sub |-> <<>>]
                 ELSE DrainTokenProceed(f, sun)]
    /\ UNCHANGED <<apiKey, broadcasts, conv>>

\* what each transfer function returns from the broadcast response
ReceiptOf(f, trx) ==
    IF f.op \in {"drainTrx", "drainTRC20Token"}
    THEN [response |-> trx, amount |-> <<f.amount[1]>>]
    ELSE [response |-> trx, amount |-> <<>>]

\* `broadcastTransaction({network, transaction})` resolves or rejects
BroadcastResponse(c) ==
    /\ Active(c).pc = "broadcast" /\ Active(c).status = "running"
    /\ \E o \in RequestOutcomes :
         LET f == Active(c)
         IN  IF o # "ok"
             THEN /\ calls' = Settled(c, Throw(f, ErrorOf(o)))
                  /\ UNCHANGED broadcasts
             ELSE /\ calls' = Settled(c, Return(f, ReceiptOf(f, Receipt)))
                  /\ broadcasts' = Append(broadcasts,
                                          [by |-> c, op |-> f.op, tx |-> f.tx[1],
                                           queried |-> f.balance[1]])
    /\ UNCHANGED <<apiKey, conv>>

\* variant: `success` is not looked at
TransactionsResult_ignoreSuccess(f, r) ==
    Return(f, r.data)

\* `if (!success) throw new Error(error); return data;`
TransactionsResult(f, r) ==
    IF ~r.success THEN Throw(f, r.error) ELSE Return(f, r.data)

\* getTrxTransactions and getTrc20Transactions after their only await
TransactionsResponse(c) ==
    /\ Active(c).pc = "transactions" /\ Active(c).status = "running"
    /\ \E o \in RequestOutcomes, r \in HistoryResponses :
         LET f == Active(c)
         IN  calls' = Settled(c, IF o # "ok" THEN Throw(f, ErrorOf(o))
                                 ELSE TransactionsResult([f EXCEPT !.response = <<r>>], r))
    /\ UNCHANGED <<apiKey, broadcasts, conv>>

\* ------------------------------------------------------------------------
\* Specification of the invocations
\* ------------------------------------------------------------------------

Init ==
    /\ apiKey \in BOOLEAN
    /\ calls = [c \in Calls |-> [main |-> IdleFrame, sub |-> <<>>]]
    /\ broadcasts = <<>>
    /\ conv = IdleConv

Next ==
    \E c \in Calls :
        \/ CallSendTrx(c)
        \/ CallSendTRC20Token(c)
        \/ CallDrainTrx(c)
        \/ CallDrainTRC20Token(c)
        \/ CallGetTrxBalance(c)
        \/ CallGetTRC20Balance(c)
        \/ CallGetTransactions(c)
        \/ LatestBlockResponse(c)
        \/ GetTrxBalanceResponse(c)
        \/ GetTRC20BalanceResponse(c)
        \/ SendTrxBalance(c)
        \/ SendTRC20Balance(c)
        \/ DrainTrxBalance(c)
        \/ DrainTRC20Balance(c)
        \/ BroadcastResponse(c)
        \/ TransactionsResponse(c)

Spec == Init /\ [][Next]_vars

\* ------------------------------------------------------------------------
\* Specification of the converter: sunToTrx then parseTrx on one input
\* ------------------------------------------------------------------------

MaxSun == 300
MaxWideBit == 33

\* 2^e + a
Wide(e, a) ==
    NumOfBits(NatToBits(a) \o Zeros(e - Len(NatToBits(a))) \o <<1>>)

SunInputs ==
    {NumOfInt(b) : b \in 0..MaxSun}
        \cup {NumOfInt(b) : b \in {1000000, 2000000, 4999999, 5000000, 2147483647}}
        \cup {Wide(e, a) : e \in 31..MaxWideBit, a \in {0, 1}}

ConvInit ==
    /\ apiKey = TRUE
    /\ calls = [c \in Calls |-> [main |-> IdleFrame, sub |-> <<>>]]
    /\ broadcasts = <<>>
    /\ \E sun \in SunInputs : conv = [IdleConv EXCEPT !.stage = "sun", !.sun = sun]

ApplySunToTrx ==
    /\ conv.stage = "sun"
    /\ conv' = [conv EXCEPT !.stage = "trx", !.trx = sunToTrx(conv.sun)]
    /\ UNCHANGED <<apiKey, calls, broadcasts>>

ApplyParseTrx ==
    /\ conv.stage = "trx"
    /\ conv' = [conv EXCEPT !.stage = "sun2", !.out = parseTrx(conv.trx)]
    /\ UNCHANGED <<apiKey, calls, broadcasts>>

ConvNext ==
    \/ ApplySunToTrx
    \/ ApplyParseTrx

ConvSpec == ConvInit /\ [][ConvNext]_vars

\* ------------------------------------------------------------------------
\* Properties
\* ------------------------------------------------------------------------

\* positions in the log of the transactions broadcast by frame op of call c
EntriesOf(c, op) ==
    {i \in 1..Len(broadcasts) : broadcasts[i].by = c /\ broadcasts[i].op = op}

EntriesBy(c) ==
    {i \in 1..Len(broadcasts) : broadcasts[i].by = c}

Million == NumOfInt(1000000)

\* the guard as the claim states it, for one frame of sendTrx or sendTRC20Token
GuardHolds(c, f) ==
    (f.op \in {"sendTrx", "sendTRC20Token"} /\ Len(f.balance) = 1) =>
        LET amount  == f.amount[1]
            balance == NumOfInt(f.balance[1])
        IN  IF NumCmp(amount, balance) >= 0
            THEN /\ f.status = "threw"
                 /\ f.error = InsufficientBalanceError
                 /\ f.tx = <<>>
                 /\ EntriesOf(c, f.op) = {}
            ELSE /\ Len(f.tx) = 1
                 /\ f.tx[1].amount = amount
                 /\ f.error # InsufficientBalanceError
                 /\ f.status = "returned" =>
                        \E i \in EntriesOf(c, f.op) : broadcasts[i].tx.amount = amount
                 /\ \A i \in EntriesOf(c, f.op) : broadcasts[i].tx.amount = amount

\* C1: in sendTrx and sendTRC20Token, once the balance is known, an amount
\* greater than or equal to it ends the call with the insufficient-balance
\* error and no transaction constructed or broadcast; a smaller amount has the
\* transaction constructed with exactly that amount and broadcast on success.
C1_Guard ==
    \A c \in Calls :
        /\ GuardHolds(c, calls[c].main)
        /\ Len(calls[c].sub) = 1 => GuardHolds(c, calls[c].sub[1])

\* C1 witness: one call rejected with amount equal to the balance, another
\* broadcast an amount below the balance
C1_Witness ==
    \E c, d \in Calls :
        /\ calls[c].main.op = "sendTrx"
        /\ calls[c].main.status = "threw"
        /\ Len(calls[c].main.balance) = 1
        /\ calls[c].main.amount[1] = NumOfInt(calls[c].main.balance[1])
        /\ calls[d].main.op = "sendTRC20Token"
        /\ calls[d].main.status = "returned"
        /\ NumCmp(calls[d].main.amount[1], NumOfInt(calls[d].main.balance[1])) < 0

\* C2: a transfer call that ended in a failure has broadcast nothing.
C2_Atomic ==
    \A c \in Calls :
        calls[c].main.status = "threw" => EntriesBy(c) = {}

\* C3: in drainTRC20Token with a backer, the nested transfer of 1 TRX
\* (1,000,000 sun) from the backer to the sender's own address has passed its
\* guard and been broadcast before the token transaction is constructed or
\* broadcast; when it fails the same error ends the drain and no token
\* transaction exists. Without a backer no nested transfer is issued.
C3_BackerFirst ==
    \A c \in Calls :
        LET main == calls[c].main
            sub  == calls[c].sub
        IN  main.op = "drainTRC20Token" =>
              IF main.backer = ""
              THEN sub = <<>> /\ EntriesOf(c, "sendTrx") = {}
              ELSE /\ (Len(main.tx) = 1 \/ EntriesOf(c, "drainTRC20Token") # {}) =>
                        /\ Len(sub) = 1
                        /\ sub[1].status = "returned"
                        /\ NumCmp(sub[1].amount[1], NumOfInt(sub[1].balance[1])) < 0
                        /\ \E i \in EntriesOf(c, "sendTrx") :
                              /\ broadcasts[i].tx.from = AddressOf(main.backer)
                              /\ broadcasts[i].tx.to = AddressOf(main.privateKey)
                              /\ broadcasts[i].tx.asset = "TRX"
                              /\ broadcasts[i].tx.amount = Million
                              /\ \A j \in EntriesOf(c, "drainTRC20Token") : i < j
                   /\ (Len(sub) = 1 /\ sub[1].status = "threw") =>
                        /\ main.status = "threw"
                        /\ main.error = sub[1].error
                        /\ main.tx = <<>>
                        /\ EntriesOf(c, "drainTRC20Token") = {}

\* C3 witness: a drain with a backer whose two transactions are in the log
C3_Witness ==
    \E c \in Calls :
        /\ calls[c].main.op = "drainTRC20Token"
        /\ calls[c].main.backer # ""
        /\ calls[c].main.status = "returned"
        /\ EntriesOf(c, "sendTrx") # {}
        /\ EntriesOf(c, "drainTRC20Token") # {}

\* C4: drainTrx sends the queried balance less 1,000,000 sun whatever amount
\* the caller passed, and returns the broadcast response with that amount.
C4_DrainAmount ==
    \A c \in Calls :
        LET f == calls[c].main
        IN  (f.op = "drainTrx" /\ Len(f.balance) = 1) =>
              LET expected == NumOfInt(f.balance[1] - 1000000)
              IN  /\ Len(f.tx) = 1 /\ f.tx[1].amount = expected
                  /\ \A i \in EntriesOf(c, "drainTrx") :
                        broadcasts[i].tx.amount = expected
                  /\ f.status = "returned" =>
                        /\ f.value = <<[response |-> Receipt, amount |-> <<expected>>]>>
                        /\ EntriesOf(c, "drainTrx") # {}

\* C4 witness: balance 2,000,000 drained as 1,000,000 by a call that was
\* given the amount 5
C4_Witness ==
    \E c \in Calls :
        /\ calls[c].main.op = "drainTrx"
        /\ calls[c].main.status = "returned"
        /\ calls[c].main.trx = Decimal(5, 0)
        /\ calls[c].main.balance = <<2000000>>
        /\ calls[c].main.tx[1].amount = Million

\* the first entry of a trc20 list whose key is exactly the contract address
FirstMatch(trc20, contractAddress) ==
    {i \in 1..Len(trc20) :
        /\ trc20[i].contract = contractAddress
        /\ \A j \in 1..(i - 1) : trc20[j].contract # contractAddress}

\* C5: getTrxBalance answers sun 0 and trx 0 for an address without account
\* record; getTRC20Balance answers sun 0 without account record, with an empty
\* token list or with no entry whose key equals the contract address, and
\* otherwise the balance of the first matching entry. Neither is an error.
C5_AbsentIsZero ==
    \A c \in Calls :
        LET f == calls[c].main
        IN  /\ (f.op = "getTrxBalance" /\ Len(f.response) = 1) =>
                 /\ f.status = "returned"
                 /\ f.response[1] = <<>> => f.value = <<[sun |-> 0, trx |-> Zero]>>
            /\ (f.op = "getTRC20Balance" /\ Len(f.response) = 1) =>
                 LET data == f.response[1]
                     hit  == IF Len(data) = 0 THEN {}
                             ELSE FirstMatch(data[1].trc20, f.contractAddress)
                 IN  /\ f.status = "returned"
                     /\ hit = {} => f.value[1].sun = 0
                     /\ \A i \in hit :
                           f.value[1].sun = parseInt(data[1].trc20[i].value)

\* C5 witness: a token query answered from the first of two matching entries,
\* and a native query answered zero for a missing record
C5_Witness ==
    \E c, d \in Calls :
        /\ calls[c].main.op = "getTRC20Balance"
        /\ calls[c].main.status = "returned"
        /\ Len(calls[c].main.response[1]) = 1
        /\ LET trc20 == calls[c].main.response[1][1].trc20
           IN  /\ Len(trc20) = 2
               /\ trc20[1].contract = "TA" /\ trc20[2].contract = "TA"
               /\ trc20[1].value # trc20[2].value
        /\ calls[d].main.op = "getTrxBalance"
        /\ calls[d].main.status = "returned"
        /\ calls[d].main.response = <<(<<>>)>>

\* C6: getTrxTransactions and getTrc20Transactions throw the remote's error
\* message when the response has success false, and return its data as it is
\* when success is true.
C6_History ==
    \A c \in Calls :
        LET f == calls[c].main
        IN  (f.op \in {"getTrxTransactions", "getTrc20Transactions"}
                /\ Len(f.response) = 1) =>
              IF f.response[1].success
              THEN f.status = "returned" /\ f.value = <<f.response[1].data>>
              ELSE f.status = "threw" /\ f.error = f.response[1].error /\ f.value = <<>>

\* C6 witness: one history call failed with the message "x", the other
\* returned two records
C6_Witness ==
    \E c, d \in Calls :
        /\ calls[c].main.op = "getTrxTransactions"
        /\ calls[c].main.status = "threw"
        /\ calls[c].main.error = "x"
        /\ calls[d].main.op = "getTrc20Transactions"
        /\ calls[d].main.status = "returned"
        /\ calls[d].main.value = <<(<<"t1", "t2">>)>>

\* C7: parseTrx(sunToTrx(b)) = b for every non-negative integer b.
C7_RoundTrip ==
    conv.stage = "sun2" => conv.out = conv.sun

\* C8: every broadcast transaction carries an amount that is at most the
\* balance its invocation queried before constructing it.
C8_NeverOverspend ==
    \A i \in 1..Len(broadcasts) :
        NumCmp(broadcasts[i].tx.amount, NumOfInt(broadcasts[i].queried)) <= 0

\* C8 witness: two invocations have broadcast, one of them the nested backer
\* transfer and the token drain around it, interleaved with the other
C8_Witness ==
    /\ Len(broadcasts) = 3
    /\ broadcasts[1].op = "sendTrx"
    /\ broadcasts[3].op = "drainTRC20Token"
    /\ broadcasts[1].by = broadcasts[3].by
    /\ broadcasts[2].by # broadcasts[1].by
    /\ broadcasts[2].op = "sendTRC20Token"

\* C9: the trx of a balance is its sun divided by 10^scale, where the scale is
\* 6 for the native coin and the caller's decimals for a token.
C9_DisplayScale ==
    \A c \in Calls :
        LET f == calls[c].main
        IN  /\ (f.op = "getTrxBalance" /\ f.status = "returned") =>
                 f.value[1].trx = NearestDouble(NatToBits(f.value[1].sun), Pow10(6))
            /\ (f.op = "getTRC20Balance" /\ f.status = "returned") =>
                 f.value[1].trx =
                     NearestDouble(NatToBits(f.value[1].sun), Pow10(f.decimals))

\* C10: drainTrx rejects with the insufficient-balance error, constructing and
\* broadcasting nothing, when the queried balance is at most the reserve.
C10_NoNegativeDrain ==
    \A c \in Calls :
        LET f == calls[c].main
        IN  (f.op = "drainTrx" /\ Len(f.balance) = 1 /\ f.balance[1] <= 1000000) =>
              /\ f.status = "threw"
              /\ f.error = InsufficientBalanceError
              /\ f.tx = <<>>
              /\ EntriesOf(c, "drainTrx") = {}

====
